---- MODULE Spec2Model ----
(***************************************************************************)
(* A model of complex-analysis (src/main.go): the expression front end    *)
(* (token stream, recursive-descent parser with precedence climbing,      *)
(* the Check validation walk, parseAndCheck, the Eval evaluator) and its   *)
(* two callers, the command-line main and the HTTP handler.               *)
(*                                                                         *)
(* Source text is a sequence of lexical items, the tokens text/scanner    *)
(* (a library, not part of the repository) hands out for it, plus a       *)
(* white-space item the scanner skips.  A token is [k, t]: k is the token *)
(* class ("Ident", "Int", "Float", "EOF") or, for any other rune, the    *)
(* rune itself; t is the token text.                                      *)
(*                                                                         *)
(* complex128 values are exact Gaussian rationals where the arithmetic is *)
(* exact; a result that is not (a division by zero, a cmplx library       *)
(* function) is kept as an uninterpreted term over its operands.          *)
(***************************************************************************)
EXTENDS Integers, Sequences, FiniteSets, TLC

(***************************************************************************)
(* Bounds of the model.                                                    *)
(***************************************************************************)
\* longest source enumerated exhaustively over CoreAlphabet
MaxLen == 4
\* most binary operators in an enumerated operator chain
MaxOps == 3
\* most arguments in an enumerated call
MaxArgs == 2
\* the -c flag: cells per side of the rendered grid
Cells == 1
\* concurrent evaluation requests sharing one Expr
NumCallers == 2

(***************************************************************************)
(* complex128 values.                                                      *)
(***************************************************************************)
Abs(n) == IF n < 0 THEN -n ELSE n

RECURSIVE GCD(_, _)
GCD(a, b) == IF b = 0 THEN a ELSE GCD(b, a % b)

\* a rational n/d in lowest terms with d > 0
Rat(n, d) ==
    LET g == GCD(Abs(n), Abs(d))
        s == IF d < 0 THEN -1 ELSE 1
    IN  <<(s * n) \div g, (s * d) \div g>>

RAdd(a, b) == Rat(a[1] * b[2] + b[1] * a[2], a[2] * b[2])
RSub(a, b) == Rat(a[1] * b[2] - b[1] * a[2], a[2] * b[2])
RMul(a, b) == Rat(a[1] * b[1], a[2] * b[2])
RDiv(a, b) == Rat(a[1] * b[2], a[2] * b[1])
RZero == <<0, 1>>

Complex(re, im) == [t |-> "num", re |-> re, im |-> im]
Real(n) == Complex(Rat(n, 1), RZero)
CZero == Real(0)
\* a value the exact arithmetic does not compute: the operation applied to its operands
Term(op, args) == [t |-> "term", op |-> op, args |-> args]
IsNum(v) == v.t = "num"

CNeg(a) ==
    IF IsNum(a) THEN Complex(RSub(RZero, a.re), RSub(RZero, a.im))
    ELSE Term("neg", <<a>>)
CAdd(a, b) ==
    IF IsNum(a) /\ IsNum(b) THEN Complex(RAdd(a.re, b.re), RAdd(a.im, b.im))
    ELSE Term("+", <<a, b>>)
CSub(a, b) ==
    IF IsNum(a) /\ IsNum(b) THEN Complex(RSub(a.re, b.re), RSub(a.im, b.im))
    ELSE Term("-", <<a, b>>)
CMul(a, b) ==
    IF IsNum(a) /\ IsNum(b)
    THEN Complex(RSub(RMul(a.re, b.re), RMul(a.im, b.im)),
                 RAdd(RMul(a.re, b.im), RMul(a.im, b.re)))
    ELSE Term("*", <<a, b>>)
CDiv(a, b) ==
    IF IsNum(a) /\ IsNum(b)
    THEN LET den == RAdd(RMul(b.re, b.re), RMul(b.im, b.im)) IN
         IF den = RZero
         THEN Term("/", <<a, b>>)      \* Inf/NaN per IEEE, never an error
         ELSE Complex(RDiv(RAdd(RMul(a.re, b.re), RMul(a.im, b.im)), den),
                      RDiv(RSub(RMul(a.im, b.re), RMul(a.re, b.im)), den))
    ELSE Term("/", <<a, b>>)

\* a panic raised inside Eval
EvalPanic(what, arg) == [t |-> "panic", what |-> what, arg |-> arg]
IsPanic(v) == v.t = "panic"

(***************************************************************************)
(* Tokens.                                                                 *)
(***************************************************************************)
Ident(s) == [k |-> "Ident", t |-> s]
IntTok(s) == [k |-> "Int", t |-> s]
FloatTok(s) == [k |-> "Float", t |-> s]
Rune(c) == [k |-> c, t |-> c]
EOF == [k |-> "EOF", t |-> ""]
\* white space: in the scanner's Whitespace set, skipped by Scan
WS == [k |-> " ", t |-> " "]

\* the tokens lex.scan.Scan() returns for a source, one per call to next()
Scan(src) == SelectSeq(src, LAMBDA x : x.k # " ")

\* lex.token after pos-1 calls of next() past the first
Tok(toks, pos) == IF pos <= Len(toks) THEN toks[pos] ELSE EOF

\* strconv.ParseComplex(text, 64) on the number texts the model uses
DecimalTexts == <<"1", "2", "3", "4", "5", "6", "7", "8", "9">>
ParseComplexOK(text) ==
    \/ \E i \in 1..Len(DecimalTexts) : DecimalTexts[i] = text
    \/ text \in {"0", "0.5"}
ParseComplex(text) ==
    IF text = "0" THEN Real(0)
    ELSE IF text = "0.5" THEN Complex(Rat(1, 2), RZero)
    ELSE Real(CHOOSE i \in 1..Len(DecimalTexts) : DecimalTexts[i] = text)

(***************************************************************************)
(* The AST: Var, literal, unary, binary, call.                             *)
(***************************************************************************)
NilExpr == [kind |-> "nil"]
Var(name) == [kind |-> "Var", name |-> name]
literal(v) == [kind |-> "literal", val |-> v]
unary(op, z) == [kind |-> "unary", op |-> op, z |-> z]
binary(op, z, w) == [kind |-> "binary", op |-> op, z |-> z, w |-> w]
call(fn, args) == [kind |-> "call", fn |-> fn, args |-> args]

NilErr == [kind |-> "nil"]

(***************************************************************************)
(* The parser.  A parsing function returns the expression and the          *)
(* lexer's position after it, or the panic that unwinds to Parse.          *)
(***************************************************************************)
NoPanic == [ptype |-> "none"]
POk(e, pos) == [ok |-> TRUE, e |-> e, pos |-> pos, panic |-> NoPanic]
PPanic(p) == [ok |-> FALSE, e |-> NilExpr, pos |-> 0, panic |-> p]

\* a panic whose value is a plain string, which Parse's recover re-panics
stringPanic(msg) == [ptype |-> "string", msg |-> msg]
\* panic(lexPanic(msg))
lexPanic(msg) == [ptype |-> "lexPanic", msg |-> msg]

describe(tok) ==
    CASE tok.k = "EOF" -> [what |-> "end of file", text |-> ""]
      [] tok.k = "Ident" -> [what |-> "identifier", text |-> tok.t]
      [] tok.k \in {"Int", "Float"} -> [what |-> "number", text |-> tok.t]
      [] OTHER -> [what |-> "rune", text |-> tok.k]

\* fmt.Sprintf("unexpected %s", lex.describe())
Unexpected(tok) == [kind |-> "unexpected", tok |-> describe(tok)]
\* fmt.Sprintf("got %s, want ')'", lex.describe())
WantParen(tok) == [kind |-> "got, want ')'", tok |-> describe(tok)]
\* err.Error() of a failed strconv.ParseComplex
BadNumber(tok) == [kind |-> "strconv.ParseComplex", tok |-> describe(tok)]

precedenceFlat(k) == IF k \in {"*", "/", "+", "-"} THEN 1 ELSE 0
precedence(k) ==
    CASE k \in {"*", "/"} -> 2
      [] k \in {"+", "-"} -> 1
      [] OTHER -> 0

\* v bound to x in Op(x), v evaluated once
Bind(v, Op(_)) == CHOOSE y \in {Op(x) : x \in {v}} : TRUE

RECURSIVE parseBinary(_, _, _), precLoop(_, _, _, _), opLoop(_, _, _)
RECURSIVE parseUnary(_, _), parsePrimary(_, _), parseArgs(_, _, _)

parseExpr(toks, pos) == parseBinary(toks, pos, 1)

\* for precedence(lex.token) == prec { ... }
opLoop(toks, lhs, prec) ==
    IF precedence(Tok(toks, lhs.pos).k) # prec THEN lhs
    ELSE Bind(parseBinary(toks, lhs.pos + 1, prec + 1), LAMBDA rhs :
           IF ~rhs.ok THEN rhs
           ELSE Bind(POk(binary(Tok(toks, lhs.pos).k, lhs.e, rhs.e), rhs.pos),
                     LAMBDA l : opLoop(toks, l, prec)))

\* for prec := precedence(lex.token); prec >= prec1; prec-- { ... }
precLoop(toks, lhs, prec, prec1) ==
    IF prec < prec1 THEN lhs
    ELSE Bind(opLoop(toks, lhs, prec), LAMBDA r :
           IF ~r.ok THEN r ELSE precLoop(toks, r, prec - 1, prec1))

parseBinary(toks, pos, prec1) ==
    Bind(parseUnary(toks, pos), LAMBDA lhs :
      IF ~lhs.ok THEN lhs
      ELSE precLoop(toks, lhs, precedence(Tok(toks, lhs.pos).k), prec1))

\* a parseUnary that takes the whole rest of the expression as its operand
parseUnaryLoose(toks, pos) ==
    IF Tok(toks, pos).k \in {"+", "-"}
    THEN Bind(parseExpr(toks, pos + 1), LAMBDA z :
           IF ~z.ok THEN z ELSE POk(unary(Tok(toks, pos).k, z.e), z.pos))
    ELSE parsePrimary(toks, pos)

parseUnary(toks, pos) ==
    IF Tok(toks, pos).k \in {"+", "-"}
    THEN Bind(parseUnary(toks, pos + 1), LAMBDA z :
           IF ~z.ok THEN z ELSE POk(unary(Tok(toks, pos).k, z.e), z.pos))
    ELSE parsePrimary(toks, pos)

\* for { args = append(args, parseExpr(lex)); if lex.token != ',' { break }; lex.next() }
parseArgs(toks, pos, args) ==
    Bind(parseExpr(toks, pos), LAMBDA a :
      IF ~a.ok THEN a
      ELSE IF Tok(toks, a.pos).k # ","
           THEN [ok |-> TRUE, e |-> Append(args, a.e), pos |-> a.pos, panic |-> NoPanic]
           ELSE Bind(Append(args, a.e), LAMBDA more : parseArgs(toks, a.pos + 1, more)))

parsePrimary(toks, pos) ==
    Bind(Tok(toks, pos), LAMBDA tok :
      CASE tok.k = "Ident" ->
             IF Tok(toks, pos + 1).k # "(" THEN POk(Var(tok.t), pos + 1)
             ELSE IF Tok(toks, pos + 2).k = ")" THEN POk(call(tok.t, <<>>), pos + 3)
             ELSE Bind(parseArgs(toks, pos + 2, <<>>), LAMBDA a :
                    IF ~a.ok THEN a
                    ELSE IF Tok(toks, a.pos).k # ")"
                         THEN PPanic(lexPanic(WantParen(Tok(toks, a.pos))))
                         ELSE POk(call(tok.t, a.e), a.pos + 1))
        [] tok.k \in {"Int", "Float"} ->
             IF ~ParseComplexOK(tok.t) THEN PPanic(lexPanic(BadNumber(tok)))
             ELSE POk(literal(ParseComplex(tok.t)), pos + 1)
        [] tok.k = "(" ->
             Bind(parseExpr(toks, pos + 1), LAMBDA e :
               IF ~e.ok THEN e
               ELSE IF Tok(toks, e.pos).k # ")"
                    THEN PPanic(lexPanic(WantParen(Tok(toks, e.pos))))
                    ELSE POk(e.e, e.pos + 1))
        [] OTHER -> PPanic(lexPanic(Unexpected(tok))))

\* what a call of Parse ends in: (e, err) returned, or a panic that escapes it
Returned(e, err) == [e |-> e, err |-> err, escaped |-> FALSE]
Escaped(p) == [e |-> NilExpr, err |-> NilErr, escaped |-> TRUE, panic |-> p]

\* the deferred recover of Parse: a lexPanic becomes err, anything else panics on
Recover(p) == IF p.ptype = "lexPanic" THEN Returned(NilExpr, p.msg) ELSE Escaped(p)

\* a Parse that returns whatever parseExpr built, without looking at the lookahead
ParseNoEOF(input) ==
    Bind(Scan(input), LAMBDA toks :
      Bind(parseExpr(toks, 1), LAMBDA r :
        IF ~r.ok THEN Recover(r.panic) ELSE Returned(r.e, NilErr)))

Parse(input) ==
    Bind(Scan(input), LAMBDA toks :
      Bind(parseExpr(toks, 1), LAMBDA r :
        IF ~r.ok THEN Recover(r.panic)
        ELSE IF Tok(toks, r.pos).k # "EOF"
             THEN Returned(NilExpr, Unexpected(Tok(toks, r.pos)))
             ELSE Returned(r.e, NilErr)))

(***************************************************************************)
(* Check: the validation walk.  It returns the error (NilErr for nil) and  *)
(* the vars map as the walk left it.                                       *)
(***************************************************************************)
CheckResult(err, vars) == [err |-> err, vars |-> vars]

\* the registry the specification documents
numParamsDocumented ==
    ("pow" :> 2) @@ ("sin" :> 1) @@ ("cos" :> 1) @@ ("sqrt" :> 1) @@ ("exp" :> 1) @@ ("log" :> 1)
numParams ==
    ("pow" :> 2) @@ ("sin" :> 1) @@ ("sqrt" :> 1) @@ ("exp" :> 1) @@ ("Log" :> 1)

\* fmt.Errorf("unkown function %q", c.fn)
UnknownFunction(fn) == [kind |-> "unknown function", fn |-> fn]
\* fmt.Errorf("call to %q has %d args, want %d", c.fn, len(c.args), arity)
ArityError(fn, got, want) == [kind |-> "arity", fn |-> fn, got |-> got, want |-> want]
UnexpectedUnaryOp(op) == [kind |-> "unexpected unary op", op |-> op]
UnexpectedBinaryOp(op) == [kind |-> "unexpected binary op", op |-> op]

RECURSIVE Check(_, _), CheckArgs(_, _, _), binaryCheckRightFirst(_, _)
RECURSIVE unaryCheck(_, _), binaryCheck(_, _), callCheck(_, _)

\* a Var.Check that records nothing
VarCheckForgets(v, vars) == CheckResult(NilErr, vars)
VarCheck(v, vars) == CheckResult(NilErr, vars \cup {v.name})

literalCheck(l, vars) == CheckResult(NilErr, vars)

unaryCheck(u, vars) ==
    IF u.op \notin {"+", "-"} THEN CheckResult(UnexpectedUnaryOp(u.op), vars)
    ELSE Check(u.z, vars)

\* a binary.Check that validates w before z
binaryCheckRightFirst(b, vars) ==
    IF b.op \notin {"+", "-", "*", "/"} THEN CheckResult(UnexpectedBinaryOp(b.op), vars)
    ELSE Bind(Check(b.w, vars), LAMBDA r :
           IF r.err # NilErr THEN r ELSE Check(b.z, r.vars))

binaryCheck(b, vars) ==
    IF b.op \notin {"+", "-", "*", "/"} THEN CheckResult(UnexpectedBinaryOp(b.op), vars)
    ELSE Bind(Check(b.z, vars), LAMBDA r :
           IF r.err # NilErr THEN r ELSE Check(b.w, r.vars))

\* for _, arg := range c.args { if err := arg.Check(vars); err != nil { return err } }
CheckArgs(args, n, vars) ==
    IF n > Len(args) THEN CheckResult(NilErr, vars)
    ELSE Bind(Check(args[n], vars), LAMBDA r :
           IF r.err # NilErr THEN r ELSE CheckArgs(args, n + 1, r.vars))

callCheck(c, vars) ==
    IF c.fn \notin DOMAIN numParams THEN CheckResult(UnknownFunction(c.fn), vars)
    ELSE IF Len(c.args) # numParams[c.fn]
         THEN CheckResult(ArityError(c.fn, Len(c.args), numParams[c.fn]), vars)
    ELSE CheckArgs(c.args, 1, vars)

\* the dispatch of Expr.Check on the node's dynamic type
Check(e, vars) ==
    CASE e.kind = "Var" -> VarCheck(e, vars)
      [] e.kind = "literal" -> literalCheck(e, vars)
      [] e.kind = "unary" -> unaryCheck(e, vars)
      [] e.kind = "binary" -> binaryCheck(e, vars)
      [] e.kind = "call" -> callCheck(e, vars)

\* the parameter name parseAndCheck accepts
ParamName == "z"

\* for v := range vars { if v != "z" { return undefined variable } }
UndefinedVariable(v) == [kind |-> "undefined variable", name |-> v]
TooManyVariables == [kind |-> "too many variables"]
EmptyExpression == [kind |-> "empty expression"]

\* parseAndCheck from the end of the walk on
AfterWalk(e, c) ==
    IF c.err # NilErr THEN Returned(NilExpr, c.err)
    ELSE IF Cardinality(c.vars) > 1 THEN Returned(NilExpr, TooManyVariables)
    ELSE IF \E v \in c.vars : v # ParamName
         THEN Returned(NilExpr, UndefinedVariable(CHOOSE v \in c.vars : v # ParamName))
    ELSE Returned(e, NilErr)

parseAndCheck(s) ==
    IF s = <<>> THEN Returned(NilExpr, EmptyExpression)
    ELSE Bind(Parse(s), LAMBDA p :
           IF p.escaped \/ p.err # NilErr THEN p
           ELSE Bind(Check(p.e, {}), LAMBDA c : AfterWalk(p.e, c)))

(***************************************************************************)
(* Eval.  An Env is a function from names to values; a result is a value  *)
(* or the panic the call raised.                                           *)
(***************************************************************************)
\* env[v]: a missing key reads as the zero value
VarEval(v, env) == IF v.name \in DOMAIN env THEN env[v.name] ELSE CZero

literalEval(l, env) == l.val

\* the arithmetic of unary.Eval and binary.Eval, and the cmplx functions of call.Eval
UnaryOp(op, z) == IF op = "+" THEN z ELSE CNeg(z)
BinaryOp(op, z, w) ==
    CASE op = "+" -> CAdd(z, w)
      [] op = "-" -> CSub(z, w)
      [] op = "*" -> CMul(z, w)
      [] op = "/" -> CDiv(z, w)
CallFns == {"pow", "sin", "cos", "sqrt", "exp", "Log"}
\* the arguments call.Eval reads for a function it supports
CallReads(fn) == IF fn = "pow" THEN 2 ELSE 1
CallOp(fn, args) ==
    Term(CASE fn = "pow" -> "cmplx.Pow"
           [] fn = "sin" -> "cmplx.Sin"
           [] fn = "cos" -> "cmplx.Cos"
           [] fn = "sqrt" -> "cmplx.Sqrt"
           [] fn = "exp" -> "cmplx.Exp"
           [] fn = "Log" -> "cmplx.Log", args)

RECURSIVE Eval(_, _), unaryEval(_, _), binaryEval(_, _), callEval(_, _), ArgsEval(_, _, _, _)

unaryEval(u, env) ==
    IF u.op \notin {"+", "-"} THEN EvalPanic("unsupported unary operator", u.op)
    ELSE Bind(Eval(u.z, env), LAMBDA z : IF IsPanic(z) THEN z ELSE UnaryOp(u.op, z))

binaryEval(b, env) ==
    IF b.op \notin {"+", "-", "*", "/"} THEN EvalPanic("unsupported binary operator", b.op)
    ELSE Bind(Eval(b.z, env), LAMBDA z :
           IF IsPanic(z) THEN z
           ELSE Bind(Eval(b.w, env), LAMBDA w :
                  IF IsPanic(w) THEN w ELSE BinaryOp(b.op, z, w)))

\* c.args[0].Eval(env), c.args[1].Eval(env), ...: an index past the list panics
ArgsEval(c, n, env, done) ==
    IF Len(done) = n THEN CallOp(c.fn, done)
    ELSE IF Len(done) >= Len(c.args) THEN EvalPanic("index out of range", c.fn)
    ELSE Bind(Eval(c.args[Len(done) + 1], env), LAMBDA a :
           IF IsPanic(a) THEN a ELSE ArgsEval(c, n, env, Append(done, a)))

callEval(c, env) ==
    IF c.fn \notin CallFns THEN EvalPanic("unsupported function call", c.fn)
    ELSE ArgsEval(c, CallReads(c.fn), env, <<>>)

\* the dispatch of Expr.Eval on the node's dynamic type
Eval(e, env) ==
    CASE e.kind = "Var" -> VarEval(e, env)
      [] e.kind = "literal" -> literalEval(e, env)
      [] e.kind = "unary" -> unaryEval(e, env)
      [] e.kind = "binary" -> binaryEval(e, env)
      [] e.kind = "call" -> callEval(e, env)
      [] OTHER -> EvalPanic("nil pointer dereference", "")

(***************************************************************************)
(* The sources the model runs the program on.                              *)
(***************************************************************************)
Runes == {"+", "-", "*", "/", "(", ")", ",", "$"}

\* the lexical item a piece of source text is
Item(s) ==
    CASE s = " " -> WS
      [] s \in Runes -> Rune(s)
      [] s \in {"0", "0x1F"} \/ (\E i \in 1..Len(DecimalTexts) : DecimalTexts[i] = s) -> IntTok(s)
      [] s \in {"0.5", "1e"} -> FloatTok(s)
      [] OTHER -> Ident(s)
Src(texts) == [i \in 1..Len(texts) |-> Item(texts[i])]

RECURSIVE SeqsUpTo(_, _)
SeqsUpTo(S, n) ==
    IF n = 0 THEN {<<>>}
    ELSE LET shorter == SeqsUpTo(S, n - 1)
         IN  shorter \cup {Append(q, x) : q \in {r \in shorter : Len(r) = n - 1}, x \in S}

CoreAlphabet ==
    {Item(s) : s \in {"z", "w", "1", "+", "-", "*", "(", ")", ",", "sin", "$"}}
CoreInputs == SeqsUpTo(CoreAlphabet, MaxLen)

\* operand (op operand)*, each operand a number, with or without a sign before it
RECURSIVE Chain(_, _, _)
Chain(ops, signs, i) ==
    LET operand == signs[i] \o <<IntTok(DecimalTexts[i])>>
    IN  IF i > Len(ops) THEN operand
        ELSE operand \o <<Rune(ops[i])>> \o Chain(ops, signs, i + 1)
ChainInputs ==
    UNION {{Chain(ops, signs, 1) : ops \in [1..n -> {"+", "-", "*", "/"}],
                                   signs \in [1..(n + 1) -> {<<>>, <<Rune("-")>>}]}
           : n \in 0..MaxOps}

FnNames == {"pow", "sin", "cos", "sqrt", "exp", "log", "Log", "foo"}
ArgSrcs ==
    {Src(<<"z">>), Src(<<"1">>), Src(<<"w">>), Src(<<"z", "+", "1">>),
     Src(<<"foo", "(", "1", ")">>), Src(<<"sin", "(", "z", ")">>),
     Src(<<"sin", "(", "1", ",", "2", ")">>)}

RECURSIVE JoinArgs(_, _)
JoinArgs(args, i) ==
    IF i > Len(args) THEN <<>>
    ELSE IF i = Len(args) THEN args[i]
    ELSE args[i] \o <<Rune(",")>> \o JoinArgs(args, i + 1)
CallSrc(fn, args) == <<Ident(fn), Rune("(")>> \o JoinArgs(args, 1) \o <<Rune(")")>>
CallInputs ==
    UNION {{CallSrc(fn, args) : fn \in FnNames, args \in [1..n -> ArgSrcs]} : n \in 0..MaxArgs}

PairInputs == {a \o <<Rune(op)>> \o b : a \in ArgSrcs, b \in ArgSrcs, op \in {"+", "*"}}

DefaultExpr == Src(<<"1", "/", "(", "1", "+", "(", "z", "*", "z", ")", ")">>)
Samples ==
    {DefaultExpr,
     Src(<<"z">>), Src(<<"w">>), Src(<<"z", "+", "w">>),
     Src(<<"1", "+", "2", "*", "3">>), Src(<<"(", "1", "+", "2", ")", "*", "3">>),
     Src(<<"8", "/", "4", "/", "2">>), Src(<<"1", "-", "2", "+", "3">>),
     Src(<<"1", "*", "2", "+", "3">>),
     Src(<<"sin", "(", "1", ",", "2", ")">>), Src(<<"foo", "(", "1", ")">>),
     Src(<<"cos", "(", "z", ")">>), Src(<<"log", "(", "z", ")">>),
     Src(<<"pow", "(", "z", ",", "2", ")">>),
     Src(<<"(", "1", "+", "2">>), Src(<<"1", " ", "2">>), Src(<<" ">>),
     Src(<<"-", "z", "+", "1">>), Src(<<"-", "-", "z">>), Src(<<"2", "*", "-", "3">>),
     Src(<<"0x1F">>), Src(<<"1e">>), Src(<<"0.5", "*", "z">>),
     Src(<<"sin", "(", "z", "$", ")">>), Src(<<"(", "z", "$", ")">>)}

Inputs == CoreInputs \cup ChainInputs \cup CallInputs \cup PairInputs \cup Samples

\* the -expr flag of a run started with -a: the default, or a bad expression
ServerFlagExprs == {DefaultExpr, Src(<<"(", "1", "+", "2">>)}

(***************************************************************************)
(* The callers: main and the HTTP handler.  The model follows one run of  *)
(* main and, when it serves, one request.                                  *)
(***************************************************************************)
VARIABLES
    flagEval,       \* *flagEval, copied to defaultParam.expression
    flagAddress,    \* *flagAddress != ""
    pc,             \* where the run is
    caller,         \* whose expression is being handled: "main" or "handler"
    src,            \* the source last handed to parseAndCheck
    parsed,         \* what the Parse call inside that parseAndCheck ended in
    res,            \* what that parseAndCheck returned: (expr, err)
    i, j,           \* writesvg's loop counters
    out,            \* what has been written to os.Stdout and to the response
    nCheck,         \* calls of parseAndCheck so far, per caller
    nEval,          \* calls of expr.Eval so far, per caller
    ast,            \* the validated Expr shared by the concurrent requests
    envs,           \* each request's own Env
    stack,          \* each request's chain of Eval calls in progress
    result          \* each request's value once its Eval has returned

mainVars == <<flagEval, flagAddress, pc, caller, src, parsed, res, i, j, out, nCheck, nEval>>
concVars == <<ast, envs, stack, result>>
vars == <<mainVars, concVars>>

NotCalled == [e |-> NilExpr, err |-> NilErr, escaped |-> FALSE, called |-> FALSE]
Callers == {"main", "handler"}
\* what is written: a line of text, or a polygon with the values at its corners
Line(text) == [what |-> text, corners |-> <<>>]
PolygonItem(a, b, c, d) == [what |-> "polygon", corners |-> <<a, b, c, d>>]
BadExpression == Line("error, bad expression")

\* flag -r, the range for x and y
XYRange == 30

\* the writer writesvg is given: os.Stdout in main, the response in handler
Writer(c) == IF c = "main" THEN "stdout" ELSE "resp"
Write(o, wr, item) == [o EXCEPT ![wr] = Append(@, item)]

InitConcIdle ==
    /\ ast = NilExpr
    /\ envs = <<>>
    /\ stack = <<>>
    /\ result = <<>>

Init ==
    /\ flagAddress \in BOOLEAN
    /\ flagEval \in (IF flagAddress THEN ServerFlagExprs ELSE Inputs)
    /\ pc = "main"
    /\ caller = "main"
    /\ src = <<>>
    /\ parsed = NotCalled
    /\ res = NotCalled
    /\ i = 0
    /\ j = 0
    /\ out = [wr \in {"stdout", "resp"} |-> <<>>]
    /\ nCheck = [c \in Callers |-> 0]
    /\ nEval = [c \in Callers |-> 0]
    /\ InitConcIdle

\* the Parse call parseAndCheck makes, if it makes one
ParseWithin(s) == IF s = <<>> THEN NotCalled ELSE Parse(s)

\* a caller that goes on to render whatever parseAndCheck returned
AfterCheckIgnoresErr(r, good, bad) == IF r.escaped THEN "crashed" ELSE good
\* if err != nil { print "error, bad expression"; return }
AfterCheck(r, good, bad) ==
    IF r.escaped THEN "crashed"
    ELSE IF r.err # NilErr THEN bad ELSE good

\* main, from parseAndCheck to the test of the error
MainParseAndCheck ==
    /\ pc = "main"
    /\ \E r \in {parseAndCheck(flagEval)} :
       /\ src' = flagEval
       /\ parsed' = ParseWithin(flagEval)
       /\ res' = r
       /\ nCheck' = [nCheck EXCEPT !["main"] = @ + 1]
       /\ pc' = AfterCheck(r, "checked", "exit")
       /\ out' = IF ~r.escaped /\ r.err # NilErr
                 THEN Write(out, "stdout", BadExpression) ELSE out
    /\ UNCHANGED <<flagEval, flagAddress, caller, i, j, nEval, concVars>>

\* fmt.Fprintf(w, "<svg ...>") from writesvg, after fmt.Println(params)
RenderStart(c) ==
    /\ i' = 0
    /\ j' = 0
    /\ out' = Write(Write(out, "stdout", Line("params")), Writer(c), Line("<svg>"))
    /\ pc' = "polygons"

\* main with no address: print the parameters and start writesvg
MainRender ==
    /\ pc = "checked"
    /\ ~flagAddress
    /\ RenderStart("main")
    /\ UNCHANGED <<flagEval, flagAddress, caller, src, parsed, res, nCheck, nEval, concVars>>

\* main with an address: http.HandleFunc and ListenAndServe
MainServe ==
    /\ pc = "checked"
    /\ flagAddress
    /\ pc' = "serving"
    /\ UNCHANGED <<flagEval, flagAddress, caller, src, parsed, res, i, j, out, nCheck,
                   nEval, concVars>>

\* handler, from the query to the test of parseAndCheck's error
HandlerParseAndCheck ==
    /\ pc = "serving"
    /\ \E q \in Inputs \cup {<<>>} :
         \E expression \in {IF q # <<>> THEN q ELSE flagEval} :
         \E r \in {parseAndCheck(expression)} :
             /\ src' = expression
             /\ parsed' = ParseWithin(expression)
             /\ res' = r
             /\ nCheck' = [nCheck EXCEPT !["handler"] = @ + 1]
             /\ pc' = AfterCheck(r, "hchecked", "served")
             /\ out' = IF ~r.escaped /\ r.err # NilErr
                       THEN Write(out, "resp", BadExpression) ELSE out
    /\ caller' = "handler"
    /\ UNCHANGED <<flagEval, flagAddress, i, j, nEval, concVars>>

\* handler after a good expression: header, parameters, start of writesvg
HandlerRender ==
    /\ pc = "hchecked"
    /\ RenderStart("handler")
    /\ UNCHANGED <<flagEval, flagAddress, caller, src, parsed, res, nCheck, nEval, concVars>>

\* f(cnum) at grid vertex (ci, cj): the closure's expr.Eval(Env{"z": z})
corner(e, ci, cj) ==
    LET half == Rat(1, 2)
        x == RMul(Rat(XYRange, 1), RSub(Rat(ci, Cells), half))
        y == RMul(Rat(XYRange, 1), RSub(Rat(cj, Cells), half))
    IN  Eval(e, [v \in {ParamName} |-> Complex(x, y)])

\* one iteration of writesvg's inner loop: four corners, one polygon
Polygon ==
    /\ pc = "polygons"
    /\ i < Cells
    /\ \E a \in {corner(res.e, i + 1, j)}, b \in {corner(res.e, i, j)},
          c \in {corner(res.e, i, j + 1)}, d \in {corner(res.e, i + 1, j + 1)} :
           IF \E n \in {a, b, c, d} : IsPanic(n)
           THEN /\ pc' = "crashed"
                /\ UNCHANGED <<i, j, out>>
           ELSE /\ out' = Write(out, Writer(caller), PolygonItem(a, b, c, d))
                /\ j' = IF j + 1 < Cells THEN j + 1 ELSE 0
                /\ i' = IF j + 1 < Cells THEN i ELSE i + 1
                /\ pc' = pc
    /\ nEval' = [nEval EXCEPT ![caller] = @ + 4]
    /\ UNCHANGED <<flagEval, flagAddress, caller, src, parsed, res, nCheck, concVars>>

\* fmt.Fprintln(w, "</svg>") and the caller's return
RenderEnd ==
    /\ pc = "polygons"
    /\ i >= Cells
    /\ out' = Write(out, Writer(caller), Line("</svg>"))
    /\ pc' = IF caller = "main" THEN "exit" ELSE "served"
    /\ UNCHANGED <<flagEval, flagAddress, caller, src, parsed, res, i, j, nCheck, nEval,
                   concVars>>

Next ==
    \/ MainParseAndCheck
    \/ MainRender
    \/ MainServe
    \/ HandlerParseAndCheck
    \/ HandlerRender
    \/ Polygon
    \/ RenderEnd

Spec == Init /\ [][Next]_vars

(***************************************************************************)
(* Concurrent evaluation: NumCallers requests evaluate one validated Expr, *)
(* each Eval call a frame on its request's stack, a step at a time.        *)
(***************************************************************************)
CallerIds == 1..NumCallers
NoResult == [t |-> "running"]
Frame(e) == [e |-> e, vals |-> <<>>]

\* the sources whose validated Expr the requests share
SharedSources ==
    {Src(<<"z">>), Src(<<"-", "z", "+", "1">>), Src(<<"z", "*", "z">>),
     Src(<<"1", "/", "z">>), Src(<<"pow", "(", "z", ",", "2", ")">>),
     Src(<<"sin", "(", "z", ")", "*", "z">>)}
\* the grid vertices the requests bind z to
Vertices == {Complex(Rat(0, 1), Rat(0, 1)), Complex(Rat(0, 1), Rat(1, 1)),
             Complex(Rat(3, 1), Rat(4, 1))}

InitMainIdle ==
    /\ flagAddress = TRUE
    /\ flagEval = DefaultExpr
    /\ pc = "serving"
    /\ caller = "handler"
    /\ src = <<>>
    /\ parsed = NotCalled
    /\ res = NotCalled
    /\ i = 0
    /\ j = 0
    /\ out = [wr \in {"stdout", "resp"} |-> <<>>]
    /\ nCheck = [c \in Callers |-> 0]
    /\ nEval = [c \in Callers |-> 0]

InitConc ==
    /\ InitMainIdle
    /\ ast \in {parseAndCheck(s).e : s \in SharedSources}
    /\ envs \in [CallerIds -> {[v \in {ParamName} |-> z] : z \in Vertices}]
    /\ stack = [c \in CallerIds |-> <<Frame(ast)>>]
    /\ result = [c \in CallerIds |-> NoResult]

\* an Env one request made, read by all of them
EnvOfFirst(c) == envs[1]
\* the Env of request c's call: Env{"z": z}, made for that call
EnvOf(c) == envs[c]

\* the children whose values the Eval call of node e reads, in order
Operands(e) ==
    CASE e.kind = "unary" -> <<e.z>>
      [] e.kind = "binary" -> <<e.z, e.w>>
      [] e.kind = "call" -> e.args
      [] OTHER -> <<>>
\* how many of them it reads
Reads(e) ==
    CASE e.kind = "unary" -> 1
      [] e.kind = "binary" -> 2
      [] e.kind = "call" -> CallReads(e.fn)
      [] OTHER -> 0
\* the panic the Eval call of node e raises before it reads operand n + 1, if any
PanicsAt(e, n) ==
    CASE e.kind = "unary" /\ e.op \notin {"+", "-"} ->
           EvalPanic("unsupported unary operator", e.op)
      [] e.kind = "binary" /\ e.op \notin {"+", "-", "*", "/"} ->
           EvalPanic("unsupported binary operator", e.op)
      [] e.kind = "call" /\ e.fn \notin CallFns ->
           EvalPanic("unsupported function call", e.fn)
      [] e.kind = "call" /\ e.fn \in CallFns /\ n < CallReads(e.fn) /\ n >= Len(e.args) ->
           EvalPanic("index out of range", e.fn)
      [] OTHER -> NoResult
\* the value the Eval call of node e returns once its operands' values are vals
Returns(e, vals, env) ==
    CASE e.kind = "Var" -> VarEval(e, env)
      [] e.kind = "literal" -> literalEval(e, env)
      [] e.kind = "unary" -> UnaryOp(e.op, vals[1])
      [] e.kind = "binary" -> BinaryOp(e.op, vals[1], vals[2])
      [] e.kind = "call" -> CallOp(e.fn, vals)

\* request c's innermost Eval call takes its next step: it panics, calls Eval on its
\* next operand, or returns its value to the call (or the request) that called it
EvalStep(c) ==
    /\ stack[c] # <<>>
    /\ \E top \in {stack[c][Len(stack[c])]}, rest \in {SubSeq(stack[c], 1, Len(stack[c]) - 1)} :
         IF PanicsAt(top.e, Len(top.vals)) # NoResult
         THEN /\ stack' = [stack EXCEPT ![c] = <<>>]
              /\ result' = [result EXCEPT ![c] = PanicsAt(top.e, Len(top.vals))]
         ELSE IF Len(top.vals) < Reads(top.e)
         THEN /\ stack' = [stack EXCEPT ![c] = Append(@, Frame(Operands(top.e)[Len(top.vals) + 1]))]
              /\ result' = result
         ELSE \E v \in {Returns(top.e, top.vals, EnvOf(c))} :
              IF rest = <<>>
              THEN /\ stack' = [stack EXCEPT ![c] = <<>>]
                   /\ result' = [result EXCEPT ![c] = v]
              ELSE /\ stack' = [stack EXCEPT ![c] =
                          Append(SubSeq(rest, 1, Len(rest) - 1),
                                 [rest[Len(rest)] EXCEPT !.vals = Append(@, v)])]
                   /\ result' = result
    /\ UNCHANGED <<ast, envs, mainVars>>

NextConc == \E c \in CallerIds : EvalStep(c)

SpecConc == InitConc /\ [][NextConc]_vars

(***************************************************************************)
(* Reference definitions the properties are stated with.                   *)
(***************************************************************************)
\* parseAndCheck has returned for src; the Parse call inside it has run
Acted == res # NotCalled
ParseCalled == parsed # NotCalled
ParseOK == ParseCalled /\ ~parsed.escaped /\ parsed.err = NilErr
Accepted == Acted /\ ~res.escaped /\ res.err = NilErr
Toks == Scan(src)

IsOperandTok(t) == t.k = "Ident" \/ (t.k \in {"Int", "Float"} /\ ParseComplexOK(t.t))
IsSign(t) == t.k \in {"+", "-"}
IsBinOp(t) == t.k \in {"+", "-", "*", "/"}
Leaf(t) == IF t.k = "Ident" THEN Var(t.t) ELSE literal(ParseComplex(t.t))
Max(S) == CHOOSE x \in S : \A y \in S : y <= x
Min(S) == CHOOSE x \in S : \A y \in S : x <= y

\* (sign* operand) (binop sign* operand)*
RECURSIVE ChainFrom(_, _, _)
ChainFrom(toks, n, wantOperand) ==
    IF n > Len(toks) THEN ~wantOperand
    ELSE IF wantOperand
         THEN \/ IsSign(toks[n]) /\ ChainFrom(toks, n + 1, TRUE)
              \/ IsOperandTok(toks[n]) /\ ChainFrom(toks, n + 1, FALSE)
         ELSE IsBinOp(toks[n]) /\ ChainFrom(toks, n + 1, TRUE)
IsChain(toks) == ChainFrom(toks, 1, TRUE)
\* the operators of a chain that stand between two operands
BinPos(toks, ops) == {n \in 2..Len(toks) : toks[n].k \in ops /\ IsOperandTok(toks[n - 1])}
SignPos(toks) == {n \in 1..Len(toks) : IsSign(toks[n]) /\ (n = 1 \/ ~IsOperandTok(toks[n - 1]))}

\* the tree of the reference grammar
\*   expr := term (('+'|'-') term)*   term := unary (('*'|'/') unary)*
\*   unary := ('+'|'-') unary | operand
\* for a chain: split at the last additive operator, else at the last multiplicative one
RECURSIVE RefTree(_)
RefTree(toks) ==
    LET low == BinPos(toks, {"+", "-"})
        high == BinPos(toks, {"*", "/"})
        at == IF low # {} THEN Max(low) ELSE Max(high)
    IN  IF low # {} \/ high # {}
        THEN binary(toks[at].k, RefTree(SubSeq(toks, 1, at - 1)),
                    RefTree(SubSeq(toks, at + 1, Len(toks))))
        ELSE IF IsSign(toks[1]) THEN unary(toks[1].k, RefTree(Tail(toks)))
        ELSE Leaf(toks[1])

\* the grammar of section 4.2, as a recogniser of whole token sequences
RECURSIVE IsExpr(_), IsUnary(_), IsPrimary(_), IsArgList(_)
IsPrimary(q) ==
    LET n == Len(q) IN
    \/ n = 1 /\ IsOperandTok(q[1])
    \/ n >= 3 /\ q[1].k = "(" /\ q[n].k = ")" /\ IsExpr(SubSeq(q, 2, n - 1))
    \/ /\ n >= 3 /\ q[1].k = "Ident" /\ q[2].k = "(" /\ q[n].k = ")"
       /\ (n = 3 \/ IsArgList(SubSeq(q, 3, n - 1)))
IsArgList(q) ==
    \/ IsExpr(q)
    \/ \E n \in 2..(Len(q) - 1) :
         /\ q[n].k = ","
         /\ IsExpr(SubSeq(q, 1, n - 1))
         /\ IsArgList(SubSeq(q, n + 1, Len(q)))
IsUnary(q) ==
    /\ Len(q) >= 1
    /\ (IsPrimary(q) \/ (IsSign(q[1]) /\ IsUnary(Tail(q))))
IsExpr(q) ==
    \/ IsUnary(q)
    \/ \E n \in 2..(Len(q) - 1) :
         /\ IsBinOp(q[n])
         /\ IsUnary(SubSeq(q, n + 1, Len(q)))
         /\ IsExpr(SubSeq(q, 1, n - 1))

\* the variables an expression refers to
RECURSIVE FreeVars(_)
FreeVars(e) ==
    CASE e.kind = "Var" -> {e.name}
      [] e.kind = "literal" -> {}
      [] e.kind = "unary" -> FreeVars(e.z)
      [] e.kind = "binary" -> FreeVars(e.z) \cup FreeVars(e.w)
      [] e.kind = "call" -> UNION {FreeVars(e.args[n]) : n \in 1..Len(e.args)}

\* the validation failures of a tree, the node's own first, in depth-first left-to-right order
NodeOffence(e) ==
    CASE e.kind = "unary" /\ e.op \notin {"+", "-"} -> <<UnexpectedUnaryOp(e.op)>>
      [] e.kind = "binary" /\ e.op \notin {"+", "-", "*", "/"} -> <<UnexpectedBinaryOp(e.op)>>
      [] e.kind = "call" /\ e.fn \notin DOMAIN numParams -> <<UnknownFunction(e.fn)>>
      [] e.kind = "call" /\ e.fn \in DOMAIN numParams /\ Len(e.args) # numParams[e.fn] ->
           <<ArityError(e.fn, Len(e.args), numParams[e.fn])>>
      [] OTHER -> <<>>
RECURSIVE Offences(_), OffencesOf(_, _)
OffencesOf(children, n) ==
    IF n > Len(children) THEN <<>>
    ELSE Offences(children[n]) \o OffencesOf(children, n + 1)
Offences(e) == NodeOffence(e) \o OffencesOf(Operands(e), 1)

\* environments an evaluation may be given: none, z, z and more
TestEnvs ==
    {<<>>} \cup {[v \in {ParamName} |-> z] : z \in Vertices}
           \cup {[v \in {ParamName, "w"} |-> Real(2)]}
EvaluatesTo(e, n) == \A env \in TestEnvs : Eval(e, env) = Real(n)

\* calls of the six documented functions with the documented number of valid arguments
ValidArgSrcs ==
    {Src(<<"z">>), Src(<<"1">>), Src(<<"z", "+", "1">>), Src(<<"sin", "(", "z", ")">>)}
ValidCalls ==
    UNION {{CallSrc(fn, args) : args \in [1..numParamsDocumented[fn] -> ValidArgSrcs]}
           : fn \in DOMAIN numParamsDocumented}

\* some part of an SVG image has been written to writer wr
SvgWritten(wr) == \E n \in 1..Len(out[wr]) : out[wr][n].what \in {"<svg>", "polygon", "</svg>"}

\* an unrecognized character: the first one, and the source before it
BadRunes == {n \in 1..Len(Toks) : Toks[n].k = "$"}
BeforeBadRune == SubSeq(Toks, 1, Min(BadRunes) - 1)

(***************************************************************************)
(* The properties.                                                         *)
(***************************************************************************)

\* C1: a call of pow, sin, cos, sqrt, exp or log with the registered number of
\* arguments (pow 2, the others 1), each a valid expression over z, passes
\* validation: parseAndCheck returns the expression and no error.
C1_DocumentedCallsPass ==
    (Acted /\ src \in ValidCalls) =>
        /\ ~res.escaped
        /\ res.err = NilErr
        /\ res.e = parsed.e
        /\ res.e.kind = "call"

\* C2: Eval is total on validated expressions: for an expression parseAndCheck
\* returned without error and any environment, Eval returns a value and reaches no
\* panic (unsupported operator, unsupported function call, argument index out of
\* range); every name and arity Check accepts is handled by call.Eval.
C2_EvalTotal ==
    /\ pc # "crashed"
    /\ Accepted => \A env \in TestEnvs : ~IsPanic(Eval(res.e, env))
    /\ \A fn \in DOMAIN numParams : fn \in CallFns /\ CallReads(fn) <= numParams[fn]
C2_Witness ==
    /\ Accepted
    /\ res.e.kind = "call"
    /\ res.e.fn = "pow"
    /\ pc \in {"exit", "served"}
    /\ nEval[caller] > 0

\* C3: binary operators are parsed so that * and / bind tighter than + and - and
\* equal precedence groups left to right: for operand (op operand)* Parse builds the
\* tree of the reference grammar; 1+2*3 is 7, (1+2)*3 is 9, 8/4/2 is 1, 1-2+3 is 2.
C3_PrecedenceClimbing ==
    /\ (ParseCalled /\ IsChain(Toks) /\ SignPos(Toks) = {}) =>
           parsed = Returned(RefTree(Toks), NilErr)
    /\ (Acted /\ src = Src(<<"1", "+", "2", "*", "3">>)) => EvaluatesTo(res.e, 7)
    /\ (Acted /\ src = Src(<<"(", "1", "+", "2", ")", "*", "3">>)) => EvaluatesTo(res.e, 9)
    /\ (Acted /\ src = Src(<<"8", "/", "4", "/", "2">>)) => EvaluatesTo(res.e, 1)
    /\ (Acted /\ src = Src(<<"1", "-", "2", "+", "3">>)) => EvaluatesTo(res.e, 2)
    /\ (Acted /\ src = Src(<<"1", "*", "2", "+", "3">>)) => EvaluatesTo(res.e, 5)
C3_Witness ==
    /\ Acted
    /\ src = Src(<<"1", "*", "2", "+", "3">>)
    /\ res.e = binary("+", binary("*", literal(Real(1)), literal(Real(2))), literal(Real(3)))

\* C4: Parse ends in exactly one of two outcomes: a built Expr with a nil error, only
\* when the whole input is an expression of the grammar and the lookahead after it is
\* end-of-input; or a nil Expr with an error, for every grammar violation.  No panic
\* escapes Parse and no partial tree is returned.
C4_ParseOutcome ==
    ParseCalled =>
        /\ ~parsed.escaped
        /\ \/ /\ parsed.e # NilExpr
              /\ parsed.err = NilErr
              /\ IsExpr(Toks)
              /\ parseExpr(Toks, 1).pos = Len(Toks) + 1
           \/ /\ parsed.e = NilExpr
              /\ parsed.err # NilErr
              /\ ~IsExpr(Toks)
C4_Witness ==
    /\ ParseCalled
    /\ src = Src(<<"(", "1", "+", "2">>)
    /\ parsed = Returned(NilExpr, WantParen(EOF))

\* C5: after a successful walk parseAndCheck decides on the set of variable names:
\* more than one is "too many variables"; one that is not z is "undefined variable"
\* naming it; none, or z alone, is accepted.  An accepted expression refers to no
\* variable but z.
C5_VariableRules ==
    /\ (ParseOK /\ Offences(parsed.e) = <<>>) =>
          LET fv == FreeVars(parsed.e) IN
          IF Cardinality(fv) > 1 THEN res = Returned(NilExpr, TooManyVariables)
          ELSE IF fv # {} /\ fv # {"z"}
               THEN res = Returned(NilExpr, UndefinedVariable(CHOOSE v \in fv : TRUE))
          ELSE res = Returned(parsed.e, NilErr)
    /\ Accepted => FreeVars(res.e) \subseteq {"z"}
C5_Witness ==
    /\ Acted
    /\ res = Returned(NilExpr, TooManyVariables)
    /\ FreeVars(parsed.e) = {"z", "w"}

\* C6: validation fails at the first offending node in depth-first, left-to-right
\* order, a call's name and argument count before its arguments, a binary node's
\* left operand before its right, and reports only that failure (unknown function
\* naming it; arity with name, actual and expected count); the variable checks apply
\* only when the walk returned no error.
C6_FirstOffence ==
    ParseOK =>
        IF Offences(parsed.e) # <<>>
        THEN res = Returned(NilExpr, Head(Offences(parsed.e)))
        ELSE res.err.kind \in {"nil", "too many variables", "undefined variable"}
C6_Witness ==
    /\ ParseOK
    /\ parsed.e.kind = "binary"
    /\ parsed.e.w.kind = "call"
    /\ parsed.e.w.fn = "foo"
    /\ Len(Offences(parsed.e)) = 2
    /\ res = Returned(NilExpr, ArityError("sin", 2, 1))

\* C7: requests evaluating one validated Expr concurrently, each with its own Env,
\* do not interfere: under every interleaving each gets the value it would get alone
\* with its Env, and no step of any Eval changes the Expr or an Env.
C7_NoInterference ==
    /\ [](\A c \in CallerIds : result[c] # NoResult => result[c] = Eval(ast, envs[c]))
    /\ [][ast' = ast /\ envs' = envs]_vars
C7_Witness ==
    /\ \A c \in CallerIds : result[c] # NoResult
    /\ ast.kind = "binary"
    /\ result[1] # result[2]

\* C8: in main and in handler the expression is parsed and validated exactly once per
\* run or request and before any evaluation: no Eval and no SVG output happens unless
\* parseAndCheck has returned success for that expression, validation is not repeated
\* per evaluation, and when parseAndCheck fails the caller writes "error, bad
\* expression" and returns without rendering.
C8_ValidateOnceBeforeEval ==
    /\ \A c \in Callers :
         /\ nCheck[c] <= 1
         /\ (nEval[c] > 0 \/ SvgWritten(Writer(c))) =>
               /\ nCheck[c] = 1
               /\ caller = c
               /\ res = parseAndCheck(src)
               /\ res.err = NilErr
               /\ res.e # NilExpr
    /\ pc \in {"polygons"} => Accepted
    /\ (Acted /\ res.err # NilErr) =>
          /\ pc \in {"exit", "served"}
          /\ out[Writer(caller)] = <<BadExpression>>
          /\ nEval[caller] = 0
C8_Witness ==
    /\ pc = "served"
    /\ Accepted
    /\ nCheck = [c \in Callers |-> 1]
    /\ nEval["handler"] = 4 * Cells * Cells
    /\ SvgWritten("resp")

C10_UnaryBindsTightest ==
    /\ (ParseCalled /\ IsChain(Toks) /\ SignPos(Toks) # {}) =>
           parsed = Returned(RefTree(Toks), NilErr)
    /\ (ParseCalled /\ src = Src(<<"-", "z", "+", "1">>)) =>
           parsed.e = binary("+", unary("-", Var("z")), literal(Real(1)))
    /\ (ParseCalled /\ src = Src(<<"-", "-", "z">>)) =>
           parsed.e = unary("-", unary("-", Var("z")))
    /\ (ParseCalled /\ src = Src(<<"2", "*", "-", "3">>)) =>
           parsed.e = binary("*", literal(Real(2)), unary("-", literal(Real(3))))
C10_Witness ==
    /\ ParseCalled
    /\ src = Src(<<"-", "z", "+", "1">>)
    /\ parsed.e = binary("+", unary("-", Var("z")), literal(Real(1)))

====
